---- MODULE Spec2Model ----
(***************************************************************************)
(* Model of the Peazy MCP app (src/index.ts): the upstream client          *)
(* fetchJson with its same-base retry and failover, the manifest cache     *)
(* with its in-flight registry, and the tool handlers built on them; and   *)
(* of the job polling of its widget (tutorial-player/widget.tsx).          *)
(*                                                                         *)
(* Four specifications share the module:                                   *)
(*   SpecJson      one fetchJson call, one upstream attempt per step       *)
(*   SpecManifest  concurrent fetchManifest callers, a clock, the cache    *)
(*   SpecTools     the server.tool handlers, one invocation at a time      *)
(*   SpecWidget    createPoom, pollJob, openRun and the unmount cleanup    *)
(***************************************************************************)
EXTENDS Integers, Sequences, FiniteSets, TLC

VARIABLES
  numBases,          \* ADK_UPSTREAM_BASES.length, fixed at start-up
  defaultRunId,      \* ADK_DEFAULT_RUN_ID, fixed at start-up (NoRun: unset)
  jpc,               \* fetchJson call: "idle" | "waiting" | "returned" | "thrown"
  attempt,           \* fetchJson parameter attempt of the frame awaiting fetch
  upstreamIndex,     \* fetchJson parameter upstreamIndex of that frame
  jlog,              \* the upstream attempts of the current call, in order
  jresult,           \* what the call returned (a JSON value) or threw (an error)
  jcalls,            \* number of top-level fetchJson calls made so far
  jinit,             \* fetchJson parameter init of the current call (its method)
  jtimers,           \* the attempts (by number) whose timeout timer is still set
  jlastBase,         \* the index of the base the previous fetchJson call ended on, or NoBase
  clock,             \* Date.now(), in ms
  manifestCache,     \* run id -> None | [expiresAt, payload]
  inflightManifest,  \* run id -> NoTask | id of the registered task
  tasks,             \* task id -> the async task of fetchManifest (lines 315-320)
  callers,           \* caller id -> state of one fetchManifest call
  upstreamFetches,   \* run id -> number of fetchJson calls for its manifest
  lastSettled,       \* run id -> "none" | "ok" | "failed": how its last task ended
  tool,              \* the tool invocation in progress or just finished
  backendRuns,       \* the backend's run list (what GET /runs answers), most recent first
  mounted,           \* widget: the component is mounted
  isWorking,         \* widget: state isWorking (disables the buttons)
  hubMessage,        \* widget: state hubMessage, the text shown to the user
  pollTimerRef,      \* widget: pollTimerRef.current (NoTimer: null)
  timers,            \* widget: the timeouts scheduled and neither fired nor cleared
  timerSeq,          \* widget: the number of timers set so far, counted up to MaxTimers
  pollPc,            \* widget: job id -> where the pollJob call for it stands
  lastReply,         \* widget: job id -> None | the reply its last settled poll received
  creating,          \* widget: number of createPoom calls awaiting create_poom
  created,           \* widget: number of jobs the backend has created
  openRunCalls,      \* widget: job id -> the run ids pollJob called openRun with, in order
  hubJobs,           \* widget: the job list shown in the hub (useState, line 92)
  lastCreate         \* widget: None | the reply the last settled createPoom received

vars == <<numBases, defaultRunId, jpc, attempt, upstreamIndex, jlog, jresult, jcalls, jinit, jtimers, jlastBase,
          clock, manifestCache, inflightManifest, tasks, callers, upstreamFetches,
          lastSettled, tool, backendRuns, mounted, isWorking, hubMessage, pollTimerRef,
          timers, timerSeq, pollPc, lastReply, creating, created, openRunCalls,
          hubJobs, lastCreate>>

configVars == <<numBases, defaultRunId>>
jsonVars ==
  <<jpc, attempt, upstreamIndex, jlog, jresult, jcalls, jinit, jtimers, jlastBase>>
manifestVars == <<clock, manifestCache, inflightManifest, tasks, callers,
                  upstreamFetches, lastSettled>>
toolVars == <<tool, backendRuns>>
widgetVars == <<mounted, isWorking, hubMessage, pollTimerRef, timers, timerSeq, pollPc,
                lastReply, creating, created, openRunCalls, hubJobs, lastCreate>>
serverVars == <<configVars, jsonVars, manifestVars, toolVars>>

None == [none |-> TRUE]

(***************************************************************************)
(* Bounds of the model.                                                    *)
(***************************************************************************)
MaxBases == 3        \* candidate bases: 1..MaxBases
MaxJsonCalls == 2    \* top-level fetchJson calls in SpecJson
MaxCallers == 3      \* fetchManifest calls in SpecManifest
MaxTicks == 3        \* clock steps in SpecManifest
TickMs == 15000      \* ms per clock step
MaxJobs == 2         \* jobs createPoom creates in SpecWidget
MaxTimers == 2       \* the count of timers set by the widget stops here

Runs == {"r1", "r2"}
NoRun == ""          \* an absent (undefined or empty) run id
NoTask == 0          \* Map.get(runId) === undefined
RunLists == {<<>>, <<"r2", "r1">>}

(***************************************************************************)
(* Errors.  A thrown value is either a ToolError-shaped object (lines 4-8) *)
(* or a native Error with a name and a message.                            *)
(***************************************************************************)
MkToolError(c, m, r) == [type |-> "ToolError", code |-> c, message |-> m, retryable |-> r]
MkError(n, m) == [type |-> "Error", name |-> n, message |-> m]

\* Messages are sequences of strings, so that a message built from parts
\* (a template literal) is the sequence of its parts.
FetchFailed == MkError("TypeError", <<"fetch failed">>)
Aborted == MkError("AbortError", <<"This operation was aborted">>)
ZodError == MkError("ZodError", <<"schema mismatch">>)

ADK_API_BASE_URL == "base0"

\* normalizeError, lines 199-224
normalizeError(err) ==
  IF err.type = "ToolError"
    THEN MkToolError(err.code, err.message, err.retryable)
  ELSE IF err.name = "AbortError"
    THEN MkToolError("UPSTREAM_TIMEOUT", <<"ADK runtime timeout after", ADK_API_BASE_URL>>, TRUE)
  ELSE MkToolError("UPSTREAM_TIMEOUT", Append(err.message, ADK_API_BASE_URL), TRUE)

\* toolError, lines 226-229: error(`${code}: ${message}`), a text payload
\* flagged as an error.  The text holds the code and the message only.
toolError(err) ==
  LET normalized == normalizeError(err)
  IN [isError |-> TRUE, text |-> <<normalized.code>> \o normalized.message]

(***************************************************************************)
(* Upstream responses.  One attempt of fetch (line 248) ends in a          *)
(* transport failure, in an abort by the timeout timer, or in an HTTP      *)
(* response with a status and a body.                                      *)
(***************************************************************************)
NetFail == [kind |-> "net"]
TimedOut == [kind |-> "abort"]
Http(s, b) == [kind |-> "http", status |-> s, body |-> b]

EmptyObj == [shape |-> "empty"]            \* {}
Malformed == [shape |-> "malformed"]       \* a body that is not JSON
Doc(d) == [shape |-> "doc", id |-> d]      \* some JSON document
ErrBody(c, m, r) == [shape |-> "error", code |-> c, message |-> m, retryable |-> r]

StatusText(s) ==
  CASE s = 404 -> "404" [] s = 500 -> "500" [] s = 502 -> "502"
    [] s = 503 -> "503" [] OTHER -> "status"

ResponseOk(resp) == resp.status >= 200 /\ resp.status <= 299

\* mutant of the parse below (used to test the properties)
JsonOf_KeepsMalformed(body) == body

\* response.json().catch(() => ({})), line 258
JsonOf(body) == IF body = Malformed THEN EmptyObj ELSE body

\* mutant of the classification below (used to test the properties)
HttpError_IgnoresBody(resp) ==
  MkToolError(IF resp.status = 404 THEN "RUN_NOT_FOUND" ELSE "UPSTREAM_TIMEOUT",
              <<"ADK runtime request failed", StatusText(resp.status)>>,
              resp.status >= 500)

\* lines 259-274: the error thrown for a non-2xx response
HttpError(resp) ==
  LET data == JsonOf(resp.body)
  IN IF data.shape = "error" /\ data.code # "" /\ data.message # <<>>
       THEN MkToolError(data.code, data.message, data.retryable)
       ELSE MkToolError(IF resp.status = 404 THEN "RUN_NOT_FOUND" ELSE "UPSTREAM_TIMEOUT",
                        <<"ADK runtime request failed", StatusText(resp.status)>>,
                        resp.status >= 500)

\* the value caught at line 277 when the attempt did not return data
Thrown(resp) ==
  CASE resp.kind = "net" -> FetchFailed
    [] resp.kind = "abort" -> Aborted
    [] OTHER -> HttpError(resp)

\* mutants of the retry test and of the catch block (used to test the properties)
RetriesSameBase_Twice(resp, att) ==
  resp.kind = "http" /\ resp.status \in {502, 503} /\ att < 2
Failover_OnlyTransport(err, att, idx, n) ==
  IF idx + 1 < n /\ err.type = "Error"
    THEN [next |-> "call", attempt |-> att, upstreamIndex |-> idx + 1]
    ELSE [next |-> "throw", err |-> err]
RetriesSameBase_AnyStatus(resp, att) == resp.kind = "http" /\ att < 1
Failover_KeepsFirstError(err, att, idx, n) ==
  IF idx + 1 < n
    THEN [next |-> "call", attempt |-> att, upstreamIndex |-> idx + 1]
    ELSE [next |-> "throw", err |-> IF jlog = <<>> THEN err ELSE FetchFailed]

\* line 254: the same-base retry
RetriesSameBase(resp, att) ==
  resp.kind = "http" /\ resp.status \in {502, 503} /\ att < 1

\* lines 277-281: the catch block
Failover(err, att, idx, n) ==
  IF idx + 1 < n
    THEN [next |-> "call", attempt |-> att, upstreamIndex |-> idx + 1]
    ELSE [next |-> "throw", err |-> err]

\* fetchJson, lines 237-285: what one frame does with the outcome of its fetch.
\* The recursive calls are returned as they are, so the frame that awaits
\* the next fetch is the only one left with anything to do.
fetchJson(resp, att, idx, n) ==
  IF RetriesSameBase(resp, att)
    THEN [next |-> "call", attempt |-> att + 1, upstreamIndex |-> idx]
  ELSE IF resp.kind = "http" /\ ResponseOk(resp)
    THEN [next |-> "return", data |-> JsonOf(resp.body)]
  ELSE Failover(Thrown(resp), att, idx, n)

\* line 245
UpstreamBase(idx, n) == IF idx < n THEN idx ELSE 0

JsonResponses ==
  {NetFail, TimedOut,
   Http(200, Doc("d1")), Http(200, Doc("d2")), Http(200, Malformed), Http(204, Malformed),
   Http(400, EmptyObj), Http(404, EmptyObj), Http(404, ErrBody("E_UP", <<"gone">>, FALSE)),
   Http(500, Malformed), Http(502, EmptyObj),
   Http(503, ErrBody("E_BUSY", <<"busy">>, TRUE))}

\* mutant of the timer handling below (used to test the properties)
TimersAfterAttempt_LeakOnThrow(pending, n, next) ==
  IF next = "call" THEN (pending \cup {n + 1}) \ {n}
  ELSE IF next = "throw" THEN pending
  ELSE pending \ {n}

\* lines 243-244 and 282-284: the frame of attempt n ends; if it calls
\* fetchJson again, the new frame sets its timer (line 244) before the
\* finally of frame n clears the timer of attempt n
TimersAfterAttempt(pending, n, next) ==
  IF next = "call" THEN (pending \cup {n + 1}) \ {n}
  ELSE pending \ {n}

(***************************************************************************)
(* SpecJson: one fetchJson call at a time, one upstream attempt per step.  *)
(***************************************************************************)
NoBase == -1

\* mutant of the defaults below (used to test the properties)
FirstAttempt_Sticky == [attempt |-> 0, upstreamIndex |-> upstreamIndex]

\* lines 240-241: attempt = 0, upstreamIndex = 0, the defaults every caller
\* of lines 287-316 and 421-593 leaves in place
FirstAttempt == [attempt |-> 0, upstreamIndex |-> 0]

JsonCall ==
  /\ jpc \in {"idle", "returned", "thrown"}
  /\ jcalls < MaxJsonCalls
  /\ jpc' = "waiting"
  /\ attempt' = FirstAttempt.attempt
  /\ upstreamIndex' = FirstAttempt.upstreamIndex
  /\ jlastBase' = IF jpc = "idle" THEN NoBase ELSE upstreamIndex
  /\ jlog' = <<>>
  /\ jresult' = None
  /\ jcalls' = jcalls + 1
  /\ \E method \in {"GET", "POST"} : jinit' = [method |-> method]
  /\ jtimers' = {1}
  /\ UNCHANGED <<configVars, manifestVars, toolVars, widgetVars>>

JsonRespond ==
  /\ jpc = "waiting"
  /\ \E resp \in JsonResponses :
       LET step == fetchJson(resp, attempt, upstreamIndex, numBases)
           entry == [base |-> UpstreamBase(upstreamIndex, numBases),
                     attempt |-> attempt, method |-> jinit.method, resp |-> resp]
       IN /\ jlog' = Append(jlog, entry)
          /\ jtimers' = TimersAfterAttempt(jtimers, Len(jlog) + 1, step.next)
          /\ CASE step.next = "call" ->
                    /\ attempt' = step.attempt
                    /\ upstreamIndex' = step.upstreamIndex
                    /\ UNCHANGED <<jpc, jresult>>
               [] step.next = "return" ->
                    /\ jpc' = "returned"
                    /\ jresult' = step.data
                    /\ UNCHANGED <<attempt, upstreamIndex>>
               [] OTHER ->
                    /\ jpc' = "thrown"
                    /\ jresult' = step.err
                    /\ UNCHANGED <<attempt, upstreamIndex>>
  /\ UNCHANGED <<jcalls, jinit, jlastBase, configVars, manifestVars, toolVars, widgetVars>>

\* fetchJson run to completion: every outcome ("return" or "throw") the call
\* can have when each attempt is answered by a response of R.
RECURSIVE FetchJsonOutcomes(_, _, _, _)
FetchJsonOutcomes(att, idx, n, R) ==
  UNION { LET step == fetchJson(resp, att, idx, n)
          IN IF step.next = "call"
               THEN FetchJsonOutcomes(step.attempt, step.upstreamIndex, n, R)
               ELSE {step}
          : resp \in R }

(***************************************************************************)
(* The manifest cache, lines 173-174 and 303-328.                          *)
(***************************************************************************)
MANIFEST_CACHE_TTL_MS == 30000

Callers == 1..MaxCallers

\* updated_at is kept as the one fact the code depends on: whether
\* updated_at * 1000 is a time value that Date can represent
Manifest(r, v, avail, url) ==
  [shape |-> "manifest", run_id |-> r, version |-> v, available |-> avail,
   video_stream_url |-> url, updated_at |-> "in_range"]

\* ManifestSchema.parse, lines 117-140 and 317
ManifestSchemaOk(raw) == raw.shape = "manifest"

\* what GET /runs/{id}/manifest may answer in SpecManifest
ManifestResponses(r) ==
  {NetFail, Http(200, Malformed),
   Http(200, Manifest(r, 1, TRUE, "url")), Http(200, Manifest(r, 2, TRUE, "url"))}

\* mutants of the lookups below (used to test the properties)
CacheLive_IgnoresExpiry(cached, now) == cached # None
LookupInflight_Never(r) == NoTask
LookupInflight_SkippedWhenStale(r) ==
  IF manifestCache[r] # None THEN NoTask ELSE inflightManifest[r]
InflightAfterSettle_OnlyOnSuccess(r, ok) ==
  IF ok THEN [inflightManifest EXCEPT ![r] = NoTask] ELSE inflightManifest

\* line 306
CacheLive(cached, now) == cached # None /\ cached.expiresAt > now

\* line 310
LookupInflight(r) == inflightManifest[r]

\* line 318
CacheEntry(now, parsed) == [expiresAt |-> now + MANIFEST_CACHE_TTL_MS, payload |-> parsed]

\* mutant of the cache update below (used to test the properties)
CacheAfterSettle_EvictsOnFailure(r, now, res) ==
  IF res.ok THEN [manifestCache EXCEPT ![r] = CacheEntry(now, res.value)]
  ELSE [manifestCache EXCEPT ![r] = None]

\* lines 316-318: manifestCache.set is reached only when neither fetchJson
\* nor ManifestSchema.parse has thrown
CacheAfterSettle(r, now, res) ==
  IF res.ok THEN [manifestCache EXCEPT ![r] = CacheEntry(now, res.value)]
  ELSE manifestCache

\* lines 323-327: the owner's finally, run when the task has settled
InflightAfterSettle(r, ok) == [inflightManifest EXCEPT ![r] = NoTask]

\* lines 316-319: the task body after fetchJson has settled
TaskResult(outcome) ==
  IF outcome.next = "throw" THEN [ok |-> FALSE, value |-> outcome.err]
  ELSE IF ManifestSchemaOk(outcome.data) THEN [ok |-> TRUE, value |-> outcome.data]
  ELSE [ok |-> FALSE, value |-> ZodError]

PendingTasks(r) ==
  {t \in Callers : tasks[t] # None /\ tasks[t].run = r /\ tasks[t].status = "pending"}

Idle == [pc |-> "idle"]

\* fetchManifest, lines 303-324, up to its first suspension point.  The
\* fields seenLive, seenEntry, seenPending and prevSettle record what was
\* true when the call was made; the code does not read them.
FetchManifestStep(c, r) ==
  /\ callers[c] = Idle
  /\ LET cached == manifestCache[r]
         now == clock
         existing == LookupInflight(r)
         seen == [run |-> r, seenLive |-> (cached # None /\ cached.expiresAt > now),
                  seenEntry |-> cached, seenPending |-> PendingTasks(r),
                  prevSettle |-> lastSettled[r]]
     IN IF CacheLive(cached, now)
          THEN /\ callers' = [callers EXCEPT ![c] =
                     seen @@ [pc |-> "done", path |-> "cache", task |-> NoTask,
                              result |-> [ok |-> TRUE, value |-> cached.payload]]]
               /\ UNCHANGED <<tasks, inflightManifest, upstreamFetches>>
        ELSE IF existing # NoTask
          THEN /\ callers' = [callers EXCEPT ![c] =
                     IF tasks[existing].status = "pending"
                       THEN seen @@ [pc |-> "awaiting", path |-> "joined", task |-> existing]
                       ELSE seen @@ [pc |-> "done", path |-> "joined", task |-> existing,
                                     result |-> tasks[existing].result]]
               /\ UNCHANGED <<tasks, inflightManifest, upstreamFetches>>
        ELSE /\ tasks' = [tasks EXCEPT ![c] = [run |-> r, now |-> now, status |-> "pending"]]
             /\ inflightManifest' = [inflightManifest EXCEPT ![r] = c]
             /\ upstreamFetches' = [upstreamFetches EXCEPT ![r] = @ + 1]
             /\ callers' = [callers EXCEPT ![c] =
                     seen @@ [pc |-> "awaiting", path |-> "fetched", task |-> c]]
  /\ lastSettled' = [lastSettled EXCEPT ![r] = "none"]
  /\ UNCHANGED <<clock, manifestCache>>

FetchManifestCall(c, r) ==
  /\ \A d \in Callers : d < c => callers[d] # Idle
  /\ FetchManifestStep(c, r)
  /\ UNCHANGED <<configVars, jsonVars, toolVars, widgetVars>>

\* lines 316-320 and 324-327: the upstream fetch of task t settles with
\* `outcome`, the task stores its result and settles, and the callers
\* awaiting it resume; the owner's finally runs in the same turn of the
\* event loop, before any new call can be made.
TaskSettleStep(t, outcome) ==
  /\ tasks[t] # None
  /\ tasks[t].status = "pending"
  /\ LET r == tasks[t].run
         res == TaskResult(outcome)
     IN /\ tasks' = [tasks EXCEPT ![t] =
               [run |-> r, now |-> tasks[t].now,
                status |-> IF res.ok THEN "ok" ELSE "failed", result |-> res]]
        /\ manifestCache' = CacheAfterSettle(r, tasks[t].now, res)
        /\ inflightManifest' = InflightAfterSettle(r, res.ok)
        /\ lastSettled' = [lastSettled EXCEPT ![r] = IF res.ok THEN "ok" ELSE "failed"]
        /\ callers' = [c \in Callers |->
               IF callers[c].pc = "awaiting" /\ callers[c].task = t
                 THEN [callers[c] EXCEPT !.pc = "done"] @@ [result |-> res]
                 ELSE callers[c]]
  /\ UNCHANGED <<clock, upstreamFetches>>

TaskSettle(t) ==
  /\ tasks[t] # None
  /\ \E outcome \in FetchJsonOutcomes(0, 0, numBases, ManifestResponses(tasks[t].run)) :
       TaskSettleStep(t, outcome)
  /\ UNCHANGED <<configVars, jsonVars, toolVars, widgetVars>>

Tick ==
  /\ clock < MaxTicks * TickMs
  /\ clock' = clock + TickMs
  /\ UNCHANGED <<manifestCache, inflightManifest, tasks, callers, upstreamFetches,
                 lastSettled, configVars, jsonVars, toolVars, widgetVars>>

(***************************************************************************)
(* The tool handlers, lines 351-594, and what they resolve and build.      *)
(***************************************************************************)
\* A poom_ref argument: absent, blank, "poom://run/<text>", a URL with
\* "run_id=<text>", or any other text.  <text> is percent-encoded.
NoRef == [form |-> "none"]
Enc(id) == [encoded |-> id]                \* encodeURIComponent(id)
BadEnc == [encoded |-> "%"]                \* a malformed percent sequence
Raw(id) == [raw |-> id]                    \* text taken as it stands
Ref(form, text) == [form |-> form, text |-> text]
URIError == MkError("URIError", <<"URI malformed">>)
RangeError == MkError("RangeError", <<"Invalid time value">>)

\* mutant of the decoding below (used to test the properties)
decodeURIComponent_AlwaysMalformed(text) == [threw |-> TRUE, err |-> URIError]

\* decodeURIComponent, lines 190 and 194
decodeURIComponent(text) ==
  IF text = BadEnc THEN [threw |-> TRUE, err |-> URIError]
  ELSE [threw |-> FALSE, value |-> text.encoded]

\* toPoomUrl, lines 176-178
toPoomUrl(runId) == Ref("poom", Enc(runId))

\* parsePoomRef, lines 180-197
parsePoomRef(value) ==
  IF value = NoRef \/ value.form = "blank" THEN [threw |-> FALSE, value |-> NoRun]
  ELSE IF value.form \in {"poom", "query"} THEN decodeURIComponent(value.text)
  ELSE [threw |-> FALSE, value |-> value.text.raw]

\* line 485: run_id || parsePoomRef(poom_ref)
InputRunId(run_id, poom_ref) ==
  IF run_id # NoRun THEN [threw |-> FALSE, value |-> run_id] ELSE parsePoomRef(poom_ref)

\* mutants of the resolution below (used to test the properties)
resolveRunId_DefaultFirst(inputRunId) ==
  IF defaultRunId # NoRun THEN [kind |-> "value", run |-> defaultRunId]
  ELSE IF inputRunId # NoRun THEN [kind |-> "value", run |-> inputRunId]
  ELSE [kind |-> "fetchRuns"]
ResolveFromRuns_WrongCode(runs) ==
  IF Len(runs) = 0
    THEN [ok |-> FALSE, value |-> MkToolError("UPSTREAM_TIMEOUT",
                                              <<"No tutorial runs are currently available">>, TRUE)]
    ELSE [ok |-> TRUE, value |-> runs[1].run_id]
HandlerCatch_Rethrows(err) == [threw |-> TRUE, err |-> err]

\* resolveRunId, lines 330-339, up to the call of fetchRuns
resolveRunId(inputRunId) ==
  IF inputRunId # NoRun THEN [kind |-> "value", run |-> inputRunId]
  ELSE IF defaultRunId # NoRun THEN [kind |-> "value", run |-> defaultRunId]
  ELSE [kind |-> "fetchRuns"]

\* resolveRunId, lines 340-348, once fetchRuns has returned
ResolveFromRuns(runs) ==
  IF Len(runs) = 0
    THEN [ok |-> FALSE, value |-> MkToolError("RUN_NOT_FOUND",
                                              <<"No tutorial runs are currently available">>, FALSE)]
    ELSE [ok |-> TRUE, value |-> runs[1].run_id]

\* the catch block of every handler: return toolError(err)
HandlerCatch(err) == toolError(err)

\* object(...) and widget(...) of mcp-use/server
object(content) == [isError |-> FALSE, kind |-> "object", content |-> content]
widget(props) == [isError |-> FALSE, kind |-> "widget", props |-> props]

RunInfo(r) == [run_id |-> r, segment_count |-> 1]
RunCard(run) == run @@ [poom_url |-> toPoomUrl(run.run_id)]
\* mutant of the mapping below (used to test the properties)
RunCards_SkipsCached(runs) ==
  LET fresh == SelectSeq(runs, LAMBDA run : manifestCache[run.run_id] = None)
  IN [i \in DOMAIN fresh |-> RunCard(fresh[i])]
RunCards(runs) == [i \in DOMAIN runs |-> RunCard(runs[i])]
Job(id, status, run) == [job_id |-> id, status |-> status, run_id |-> run]
IsActive(job) == job.status \in {"queued", "running"}

\* hubWidgetResponse, lines 351-366
hubWidgetResponse(runs, activeJobs) ==
  widget([mode |-> "hub", runs |-> RunCards(runs), active_jobs |-> activeJobs,
          hub_message |-> <<"Loaded", Len(runs)>>])

Endpoints == {"runs", "jobs", "job", "create", "quiz", "score", "manifest"}

RunsDoc(ids) == [shape |-> "runs", runs |-> [i \in DOMAIN ids |-> RunInfo(ids[i])]]
JobsDoc(jobs) == [shape |-> "jobs", jobs |-> jobs]
JobDoc(job) == [shape |-> "job", job |-> job]

\* the bodies with which the backend answers 200 on each endpoint
ValidBodies(ep, r) ==
  CASE ep = "runs" -> {RunsDoc(backendRuns)}
    [] ep = "jobs" -> {JobsDoc(<<>>),
                       JobsDoc(<<Job("j1", "running", NoRun), Job("j2", "completed", "r1")>>)}
    [] ep = "job" -> {JobDoc(Job("j1", "running", NoRun)), JobDoc(Job("j1", "completed", "r1"))}
    [] ep = "create" -> {JobDoc(Job("j1", "queued", NoRun))}
    [] ep = "quiz" -> {[shape |-> "quiz"]}
    [] ep = "score" -> {[shape |-> "score"]}
    [] OTHER -> {Manifest(r, 1, TRUE, "url"), Manifest(r, 1, FALSE, "url"),
                 Manifest(r, 1, TRUE, ""),
                 [Manifest(r, 1, TRUE, "url") EXCEPT !.updated_at = "out_of_range"]}

FailingResponses ==
  {NetFail, TimedOut, Http(404, EmptyObj), Http(503, ErrBody("E_BUSY", <<"busy">>, TRUE)),
   Http(200, Malformed)}

EndpointResponses(ep, r) == FailingResponses \cup {Http(200, b) : b \in ValidBodies(ep, r)}

\* the shape each schema accepts: RunsResponseSchema, PipelineJobsSchema,
\* {job: PipelineJobSchema}, PipelineJobCreateSchema, QuizSchema, QuizScoreSchema
SchemaShape(ep) ==
  CASE ep = "create" -> "job" [] OTHER -> ep

\* fetchRuns, fetchPipelineJobs, fetchPipelineJob (lines 287-301) and the
\* parse calls of the handlers: the fetchJson outcome, then Schema.parse
ParseEndpoint(ep, outcome) ==
  IF outcome.next = "throw" THEN [ok |-> FALSE, value |-> outcome.err]
  ELSE IF outcome.data.shape = SchemaShape(ep) THEN [ok |-> TRUE, value |-> outcome.data]
  ELSE [ok |-> FALSE, value |-> ZodError]

ToolOps == {"list_runs", "list_pooms", "create_poom", "get_poom_status",
            "get_segment_quiz", "submit_segment_quiz"}

\* mutant of the calls below (used to test the properties)
FirstCalls_StatusJobFirst(op) ==
  CASE op = "list_runs" -> <<"runs">>
    [] op = "list_pooms" -> <<"runs", "jobs">>
    [] op = "create_poom" -> <<"create">>
    [] op = "get_poom_status" -> <<"job">>
    [] op = "get_segment_quiz" -> <<"quiz">>
    [] OTHER -> <<"score">>

\* the upstream calls a handler issues before its first suspension point
FirstCalls(op) ==
  CASE op = "list_runs" -> <<"runs">>
    [] op = "list_pooms" -> <<"runs", "jobs">>
    [] op = "create_poom" -> <<"create">>
    [] op = "get_poom_status" -> <<"job", "runs">>
    [] op = "get_segment_quiz" -> <<"quiz">>
    [] OTHER -> <<"score">>

SeqToSet(q) == {q[i] : i \in DOMAIN q}

NewTool(op, run_id, poom_ref) ==
  [op |-> op, run_id |-> run_id, poom_ref |-> poom_ref, pc |-> "awaiting",
   pending |-> {}, calls |-> <<>>, got |-> [e \in Endpoints |-> None],
   resolved |-> NoRun, caught |-> None, result |-> None]

Caught(t, err) == [t EXCEPT !.pc = "done", !.caught = err, !.result = HandlerCatch(err)]
Returned(t, payload) == [t EXCEPT !.pc = "done", !.result = payload]

\* the return statement of each handler but open_run_player
HandlerResult(op, got) ==
  CASE op = "list_runs" -> hubWidgetResponse(got["runs"].runs, <<>>)
    [] op = "list_pooms" ->
         hubWidgetResponse(got["runs"].runs, SelectSeq(got["jobs"].jobs, IsActive))
    [] op = "create_poom" -> object([job |-> got["create"].job])
    [] op = "get_poom_status" ->
         object([job |-> got["job"].job, runs |-> RunCards(got["runs"].runs)])
    [] op = "get_segment_quiz" -> object(got["quiz"])
    [] OTHER -> object(got["score"])

\* a handler, lines 379-463 and 551-593, from its call to its first
\* suspension point
ToolInvoke(op) ==
  /\ tool = None
  /\ tool' = [NewTool(op, NoRun, NoRef) EXCEPT
                !.pending = SeqToSet(FirstCalls(op)), !.calls = FirstCalls(op)]
  /\ UNCHANGED <<backendRuns, configVars, jsonVars, manifestVars, widgetVars>>

\* one of the upstream calls of the handler settles.  Promise.all rejects
\* with the first rejection and fulfils when every call has fulfilled; a
\* call that settles after the handler has returned changes nothing.
ToolSettle(ep) ==
  /\ tool # None
  /\ tool.op \in ToolOps
  /\ ep \in tool.pending
  /\ \E outcome \in FetchJsonOutcomes(0, 0, numBases, EndpointResponses(ep, NoRun)) :
       LET res == ParseEndpoint(ep, outcome)
           t1 == [tool EXCEPT !.pending = @ \ {ep}]
           t2 == [t1 EXCEPT !.got[ep] = res.value]
       IN tool' = IF tool.pc = "done" THEN t1
                  ELSE IF ~res.ok THEN Caught(t1, res.value)
                  ELSE IF t2.pending = {} THEN Returned(t2, HandlerResult(tool.op, t2.got))
                  ELSE t2
  /\ UNCHANGED <<backendRuns, configVars, jsonVars, manifestVars, widgetVars>>

\* mutant of the step below (used to test the properties)
OpenRunFinish_IgnoresAvailability(t, res) ==
  IF ~res.ok THEN Caught(t, res.value)
  ELSE IF res.value.video_stream_url = ""
    THEN Caught(t, MkToolError("MANIFEST_INVALID",
                               <<"Run", t.resolved, "does not have a playable master video">>,
                               FALSE))
  ELSE Returned(t, widget([run_id |-> t.resolved,
                           master_video_url |-> res.value.video_stream_url,
                           poom_url |-> toPoomUrl(t.resolved)]))

\* open_run_player, lines 488-534: what follows the manifest
OpenRunFinish(t, res) ==
  IF ~res.ok THEN Caught(t, res.value)
  ELSE IF ~res.value.available \/ res.value.video_stream_url = ""
    THEN Caught(t, MkToolError("MANIFEST_INVALID",
                               <<"Run", t.resolved, "does not have a playable master video">>,
                               FALSE))
  ELSE IF res.value.updated_at = "out_of_range" THEN Caught(t, RangeError)
  ELSE Returned(t, widget([run_id |-> t.resolved,
                           master_video_url |-> res.value.video_stream_url,
                           poom_url |-> toPoomUrl(t.resolved)]))

\* open_run_player, line 486: the call of fetchManifest with the resolved id
OpenRunFetchManifest(t, r) ==
  /\ FetchManifestStep(1, r)
  /\ LET t1 == [t EXCEPT !.resolved = r]
         me == callers'[1]
     IN tool' = IF me.pc = "done" THEN OpenRunFinish(t1, me.result)
                ELSE [t1 EXCEPT !.pending = {"manifest"},
                                !.calls = IF me.path = "fetched" THEN Append(@, "manifest") ELSE @]

\* open_run_player, lines 483-486, from its call to its first suspension point
OpenRunInvoke(run_id, poom_ref) ==
  /\ tool = None
  /\ LET t == NewTool("open_run_player", run_id, poom_ref)
         input == InputRunId(run_id, poom_ref)
     IN IF input.threw
          THEN tool' = Caught(t, input.err) /\ UNCHANGED manifestVars
        ELSE IF resolveRunId(input.value).kind = "fetchRuns"
          THEN /\ tool' = [t EXCEPT !.pending = {"runs"}, !.calls = <<"runs">>]
               /\ UNCHANGED manifestVars
        ELSE OpenRunFetchManifest(t, resolveRunId(input.value).run)
  /\ UNCHANGED <<backendRuns, configVars, jsonVars, widgetVars>>

\* resolveRunId, lines 339-348: fetchRuns settles, then line 486
OpenRunRunsSettle ==
  /\ tool # None
  /\ tool.op = "open_run_player"
  /\ "runs" \in tool.pending
  /\ \E outcome \in FetchJsonOutcomes(0, 0, numBases, EndpointResponses("runs", NoRun)) :
       LET res == ParseEndpoint("runs", outcome)
           t1 == [tool EXCEPT !.pending = {}, !.got["runs"] = res.value]
       IN IF ~res.ok
            THEN tool' = Caught(t1, res.value) /\ UNCHANGED manifestVars
          ELSE IF ~ResolveFromRuns(res.value.runs).ok
            THEN tool' = Caught(t1, ResolveFromRuns(res.value.runs).value)
                 /\ UNCHANGED manifestVars
          ELSE OpenRunFetchManifest(t1, ResolveFromRuns(res.value.runs).value)
  /\ UNCHANGED <<backendRuns, configVars, jsonVars, widgetVars>>

\* line 486: the manifest task settles and the handler resumes
OpenRunManifestSettle ==
  /\ tool # None
  /\ tool.op = "open_run_player"
  /\ "manifest" \in tool.pending
  /\ \E outcome \in FetchJsonOutcomes(0, 0, numBases, EndpointResponses("manifest", tool.resolved)) :
       /\ TaskSettleStep(callers[1].task, outcome)
       /\ tool' = OpenRunFinish([tool EXCEPT !.pending = {}], callers'[1].result)
  /\ UNCHANGED <<backendRuns, configVars, jsonVars, widgetVars>>

\* the handler's result is delivered; the records of the invocation are dropped
ToolReturn ==
  /\ tool # None
  /\ tool.pc = "done"
  /\ tool.pending = {}
  /\ tool' = None
  /\ callers' = [c \in Callers |-> Idle]
  /\ tasks' = [t \in Callers |-> None]
  /\ upstreamFetches' = [r \in Runs |-> 0]
  /\ lastSettled' = [r \in Runs |-> "none"]
  /\ UNCHANGED <<clock, manifestCache, inflightManifest, backendRuns, configVars, jsonVars, widgetVars>>

RunIdArgs == Runs \cup {NoRun}
PoomRefArgs ==
  {NoRef, Ref("blank", Enc(NoRun)), Ref("poom", Enc("r2")), Ref("poom", BadEnc),
   Ref("query", Enc("r1")), Ref("plain", Raw("r2"))}

(***************************************************************************)
(* The widget (src/resources/tutorial-player/widget.tsx): createPoom,      *)
(* pollJob, openRun, stopPolling and the unmount cleanup.                  *)
(***************************************************************************)
JobIds == 1..MaxJobs
NoTimer == 0
NoJobId == 0          \* the empty job id
HubJobsMax == 8       \* slice(0, 8), lines 245 and 312
FirstPollDelayMs == 1200   \* line 320
PollIntervalMs == 3500     \* line 269

\* a job as get_poom_status reports it (PoomJob, lines 46-54)
PoomJob(id, status, run, message, err) ==
  [job_id |-> id, status |-> status, run_id |-> run, message |-> message, error |-> err]
JobError(message) == [code |-> "E_JOB", message |-> message, retryable |-> FALSE]

StatusJobs(j) ==
  {PoomJob(j, "queued", NoRun, "", None),
   PoomJob(j, "completed", "r1", "", None),
   PoomJob(j, "completed", NoRun, "", None),
   PoomJob(j, "failed", NoRun, "stage failed", JobError("decode error")),
   PoomJob(j, "failed", NoRun, "stage failed", None),
   PoomJob(j, "failed", NoRun, "", None)}

\* what await callTool(...) gives: the call rejects, or it resolves with
\* the result of the tool handler
Rejected == [kind |-> "rejected"]
Resolved(result) == [kind |-> "resolved", result |-> result]

\* response?.structuredContent ?? {}: an error result carries text only
StructuredContent(reply) ==
  IF reply.result.isError THEN None
  ELSE IF reply.result.kind = "widget" THEN reply.result.props
  ELSE reply.result.content

\* data?.job, lines 240 and 293
JobOf(data) == IF data # None /\ "job" \in DOMAIN data THEN data.job ELSE None

\* the replies to get_poom_status (index.ts lines 450-463) for job j
PollReplies(j) ==
  {Rejected, Resolved(toolError(FetchFailed))}
    \cup {Resolved(object([job |-> jb, runs |-> <<>>])) : jb \in StatusJobs(j)}

\* the replies to create_poom (index.ts lines 421-435) when the backend
\* creates job j
CreateReplies(j) ==
  {Rejected, Resolved(toolError(FetchFailed)),
   Resolved(object([job |-> PoomJob(NoJobId, "queued", NoRun, "", None)])),
   Resolved(object([job |-> PoomJob(j, "queued", NoRun, "", None)]))}

\* mutant of the merge below (used to test the properties)
MergeJob_KeepsStale(job, prev) ==
  SubSeq(<<job>> \o prev, 1, IF Len(prev) + 1 < HubJobsMax THEN Len(prev) + 1 ELSE HubJobsMax)

\* lines 245 and 312:
\* [job, ...prev.filter((row) => row.job_id !== job.job_id)].slice(0, 8)
MergeJob(job, prev) ==
  LET merged == <<job>> \o SelectSeq(prev, LAMBDA row : row.job_id # job.job_id)
  IN SubSeq(merged, 1, IF Len(merged) < HubJobsMax THEN Len(merged) ELSE HubJobsMax)

\* props?.active_jobs ?? [], line 92: the job list the widget is mounted
\* with, here jobs of earlier sessions, one fewer than the list can show
OldJob(n) == PoomJob(MaxJobs + n, "running", NoRun, "", None)
ActiveJobsProp == [n \in 1..(HubJobsMax - 1) |-> OldJob(n)]

\* the replies to open_run_player with an explicit run id
OpenReplies(r) ==
  {Rejected, Resolved(toolError(FetchFailed)),
   Resolved(widget([run_id |-> r, master_video_url |-> "url", poom_url |-> toPoomUrl(r)]))}

\* line 261: job.error?.message || job.message || "Unknown failure"
FailureDetail(job) ==
  IF job.error # None /\ job.error.message # "" THEN job.error.message
  ELSE IF job.message # "" THEN job.message
  ELSE "Unknown failure"

\* line 247
StatusMessage(job) == <<job.status, job.message>>

\* window.clearTimeout(id)
clearTimeout(id) == {t \in timers : t.id # id}

\* the timers left by stopPolling, lines 180-185 (it also nulls the ref)
stopPolling == IF pollTimerRef # NoTimer THEN clearTimeout(pollTimerRef) ELSE timers

\* the id window.setTimeout returns: one that no pending timer has.  The
\* ref always holds the id returned last, so an id whose timer is gone can
\* be handed out again without being mistaken for a pending timer.
TimerIds == 1..(MaxJobs + 1)
NewTimerId(left) ==
  CHOOSE id \in TimerIds :
    /\ \A t \in left : t.id # id
    /\ \A other \in TimerIds : (\A t \in left : t.id # other) => id <= other

\* pollTimerRef.current = window.setTimeout(() => pollJob(j), ...), on top
\* of the timers left
SetPollTimer(j, left, delay) ==
  /\ timerSeq' = IF timerSeq < MaxTimers THEN timerSeq + 1 ELSE timerSeq
  /\ timers' = left \cup {[id |-> NewTimerId(left), job |-> j, delay |-> delay]}
  /\ pollTimerRef' = NewTimerId(left)

\* createPoom, lines 278-287: from the click to the await
CreatePoomCall ==
  /\ mounted
  /\ ~isWorking
  /\ created + creating < MaxJobs
  /\ \E url \in {"", "u"} :
       IF url = ""
         THEN /\ hubMessage' = <<"Paste a video URL first.">>
              /\ UNCHANGED <<isWorking, creating>>
         ELSE /\ isWorking' = TRUE
              /\ creating' = creating + 1
              /\ UNCHANGED hubMessage
  /\ UNCHANGED <<mounted, pollTimerRef, timers, timerSeq, pollPc, lastReply,
                 created, openRunCalls, hubJobs, lastCreate, serverVars>>

\* mutant of the classification below (used to test the properties)
CreateOutcome_PollsWithoutId(reply) ==
  IF reply.kind = "rejected" THEN "rejected"
  ELSE IF JobOf(StructuredContent(reply)) = None THEN "missing"
  ELSE "poll"

\* createPoom, lines 287-322: the branch taken on the reply to create_poom.
\* The server's reply has no latest_job and no active_jobs (index.ts lines
\* 78-80 and 430-431), so the job is data?.job
CreateOutcome(reply) ==
  IF reply.kind = "rejected" THEN "rejected"
  ELSE IF JobOf(StructuredContent(reply)) = None THEN "missing"
  ELSE IF JobOf(StructuredContent(reply)).job_id = NoJobId THEN "missing"
  ELSE "poll"

\* createPoom, lines 287-325: create_poom has settled
CreatePoomSettle ==
  /\ creating > 0
  /\ creating' = creating - 1
  /\ isWorking' = FALSE
  /\ \E reply \in CreateReplies(created + 1) :
       LET job == JobOf(StructuredContent(reply))
           outcome == CreateOutcome(reply)
       IN /\ lastCreate' = reply
          /\ IF outcome = "rejected"
               THEN /\ hubMessage' = <<"Create failed">>
                    /\ UNCHANGED <<pollTimerRef, timers, timerSeq, pollPc, created, hubJobs>>
             ELSE IF outcome = "missing"
               THEN /\ hubMessage' = <<"POOM creation response was missing a job id.">>
                    /\ UNCHANGED <<pollTimerRef, timers, timerSeq, pollPc, created, hubJobs>>
             ELSE /\ hubMessage' = <<"POOM queued:", job.job_id>>
                  /\ hubJobs' = MergeJob(job, hubJobs)
                  /\ created' = created + 1
                  /\ SetPollTimer(job.job_id, stopPolling, FirstPollDelayMs)
                  /\ pollPc' = [pollPc EXCEPT ![job.job_id] = "timer"]
  /\ UNCHANGED <<mounted, lastReply, openRunCalls, serverVars>>

\* the timeout of job j fires: pollJob(j) runs to its await, lines 236-238
TimerFire(j) ==
  /\ \E t \in timers :
       /\ t.job = j
       /\ timers' = timers \ {t}
  /\ pollPc' = [pollPc EXCEPT ![j] = "awaiting"]
  /\ UNCHANGED <<mounted, isWorking, hubMessage, pollTimerRef, timerSeq, lastReply,
                 creating, created, openRunCalls, hubJobs, lastCreate, serverVars>>

\* mutants of the classification below (used to test the properties)
PollOutcome_CompletedContinues(reply) ==
  IF reply.kind = "rejected" THEN "rejected"
  ELSE IF JobOf(StructuredContent(reply)) = None THEN "continue"
  ELSE IF JobOf(StructuredContent(reply)).status = "failed" THEN "failed"
  ELSE "continue"
PollOutcome_NoRunContinues(reply) ==
  IF reply.kind = "rejected" THEN "rejected"
  ELSE IF JobOf(StructuredContent(reply)) = None THEN "continue"
  ELSE IF JobOf(StructuredContent(reply)).status = "completed"
    THEN IF JobOf(StructuredContent(reply)).run_id # NoRun THEN "open" ELSE "continue"
  ELSE IF JobOf(StructuredContent(reply)).status = "failed" THEN "failed"
  ELSE "continue"
PollOutcome_NoJobStops(reply) ==
  IF reply.kind = "rejected" THEN "rejected"
  ELSE IF JobOf(StructuredContent(reply)) = None THEN "rejected"
  ELSE IF JobOf(StructuredContent(reply)).status = "completed"
    THEN IF JobOf(StructuredContent(reply)).run_id # NoRun THEN "open" ELSE "no_run"
  ELSE IF JobOf(StructuredContent(reply)).status = "failed" THEN "failed"
  ELSE "continue"
PollOutcome_FailedContinues(reply) ==
  IF reply.kind = "rejected" THEN "rejected"
  ELSE IF JobOf(StructuredContent(reply)) = None THEN "continue"
  ELSE IF JobOf(StructuredContent(reply)).status = "completed"
    THEN IF JobOf(StructuredContent(reply)).run_id # NoRun THEN "open" ELSE "no_run"
  ELSE "continue"

\* pollJob, lines 237-273: the branch taken on the reply to get_poom_status
PollOutcome(reply) ==
  IF reply.kind = "rejected" THEN "rejected"
  ELSE IF JobOf(StructuredContent(reply)) = None THEN "continue"
  ELSE IF JobOf(StructuredContent(reply)).status = "completed"
    THEN IF JobOf(StructuredContent(reply)).run_id # NoRun THEN "open" ELSE "no_run"
  ELSE IF JobOf(StructuredContent(reply)).status = "failed" THEN "failed"
  ELSE "continue"

\* pollJob, lines 238-273: get_poom_status has settled
PollSettle(j) ==
  /\ pollPc[j] = "awaiting"
  /\ \E reply \in PollReplies(j) :
       LET job == JobOf(StructuredContent(reply))
           outcome == PollOutcome(reply)
       IN /\ lastReply' = [lastReply EXCEPT ![j] = reply]
          /\ IF outcome = "continue"
               THEN /\ SetPollTimer(j, timers, PollIntervalMs)
                    /\ pollPc' = [pollPc EXCEPT ![j] = "timer"]
               ELSE /\ timers' = stopPolling
                    /\ pollTimerRef' = NoTimer
                    /\ pollPc' = [pollPc EXCEPT ![j] = IF outcome = "open" THEN "opening"
                                                       ELSE "ended"]
                    /\ UNCHANGED timerSeq
          /\ hubMessage' =
               CASE outcome = "rejected" -> <<"Polling failed">>
                 [] outcome = "open" -> StatusMessage(job)
                 [] outcome = "no_run" -> <<"POOM completed but run_id is missing. Refresh and open manually.">>
                 [] outcome = "failed" -> <<"POOM failed:", FailureDetail(job)>>
                 [] OTHER -> IF reply.kind = "resolved" /\ job # None THEN StatusMessage(job)
                             ELSE hubMessage
          /\ IF outcome = "open"
               THEN /\ isWorking' = TRUE
                    /\ openRunCalls' = [openRunCalls EXCEPT ![j] = Append(@, job.run_id)]
               ELSE UNCHANGED <<isWorking, openRunCalls>>
          /\ hubJobs' = IF reply.kind = "resolved" /\ job # None THEN MergeJob(job, hubJobs)
                        ELSE hubJobs
  /\ UNCHANGED <<mounted, creating, created, lastCreate, serverVars>>

\* openRun, lines 223-230, called from pollJob line 252: open_run_player
\* has settled, and pollJob returns
OpenRunSettle(j) ==
  /\ pollPc[j] = "opening"
  /\ \E reply \in OpenReplies(openRunCalls[j][Len(openRunCalls[j])]) :
       hubMessage' = IF reply.kind = "rejected" THEN <<"Failed to open run">>
                     ELSE <<"Opened run:", openRunCalls[j][Len(openRunCalls[j])]>>
  /\ isWorking' = FALSE
  /\ pollPc' = [pollPc EXCEPT ![j] = "ended"]
  /\ UNCHANGED <<mounted, pollTimerRef, timers, timerSeq, lastReply, creating,
                 created, openRunCalls, hubJobs, lastCreate, serverVars>>

\* the cleanup of the effect of lines 158-165: the component unmounts
Unmount ==
  /\ mounted
  /\ mounted' = FALSE
  /\ timers' = IF pollTimerRef # NoTimer THEN clearTimeout(pollTimerRef) ELSE timers
  /\ UNCHANGED <<isWorking, hubMessage, pollTimerRef, timerSeq, pollPc, lastReply,
                 creating, created, openRunCalls, hubJobs, lastCreate, serverVars>>

(***************************************************************************)
(* Initial state and specifications.                                       *)
(***************************************************************************)
Init ==
  /\ numBases \in 1..MaxBases
  /\ defaultRunId \in Runs \cup {NoRun}
  /\ jpc = "idle"
  /\ attempt = 0
  /\ upstreamIndex = 0
  /\ jlog = <<>>
  /\ jresult = None
  /\ jcalls = 0
  /\ jinit = [method |-> "GET"]
  /\ jtimers = {}
  /\ jlastBase = NoBase
  /\ clock = 0
  /\ manifestCache = [r \in Runs |-> None]
  /\ inflightManifest = [r \in Runs |-> NoTask]
  /\ tasks = [t \in Callers |-> None]
  /\ callers = [c \in Callers |-> Idle]
  /\ upstreamFetches = [r \in Runs |-> 0]
  /\ lastSettled = [r \in Runs |-> "none"]
  /\ tool = None
  /\ backendRuns \in RunLists
  /\ mounted = TRUE
  /\ isWorking = FALSE
  /\ hubMessage = <<"POOM hub ready.">>
  /\ pollTimerRef = NoTimer
  /\ timers = {}
  /\ timerSeq = 0
  /\ pollPc = [j \in JobIds |-> "none"]
  /\ lastReply = [j \in JobIds |-> None]
  /\ creating = 0
  /\ created = 0
  /\ openRunCalls = [j \in JobIds |-> <<>>]
  /\ hubJobs = ActiveJobsProp
  /\ lastCreate = None

InitJson == Init /\ defaultRunId = NoRun /\ backendRuns = <<>>

NextJson == JsonCall \/ JsonRespond

SpecJson == InitJson /\ [][NextJson]_vars

\* every attempt ends: with a response, or with the abort of its timeout
\* timer (line 244)
SpecJsonFair == SpecJson /\ WF_vars(JsonRespond)

InitManifest ==
  Init /\ defaultRunId = NoRun /\ backendRuns = <<>> /\ numBases = MaxBases

NextManifest ==
  \/ \E c \in Callers, r \in Runs : FetchManifestCall(c, r)
  \/ \E t \in Callers : TaskSettle(t)
  \/ Tick

SpecManifest == InitManifest /\ [][NextManifest]_vars

InitTools == Init /\ numBases = 1

NextTools ==
  \/ \E op \in ToolOps : ToolInvoke(op)
  \/ \E ep \in Endpoints : ToolSettle(ep)
  \/ \E run_id \in RunIdArgs, poom_ref \in PoomRefArgs : OpenRunInvoke(run_id, poom_ref)
  \/ OpenRunRunsSettle
  \/ OpenRunManifestSettle
  \/ ToolReturn
  \/ Tick

SpecTools == InitTools /\ [][NextTools]_vars

InitWidget == Init /\ numBases = 1 /\ defaultRunId = NoRun /\ backendRuns = <<>>

NextWidget ==
  \/ CreatePoomCall
  \/ CreatePoomSettle
  \/ \E j \in JobIds : TimerFire(j)
  \/ \E j \in JobIds : PollSettle(j)
  \/ \E j \in JobIds : OpenRunSettle(j)
  \/ Unmount

SpecWidget == InitWidget /\ [][NextWidget]_vars

\* a timer that stays set fires, and a call to a tool that stays awaited
\* gets its reply
SpecWidgetFair ==
  /\ SpecWidget
  /\ \A j \in JobIds : WF_vars(TimerFire(j))
  /\ \A j \in JobIds : WF_vars(PollSettle(j))
  /\ \A j \in JobIds : WF_vars(OpenRunSettle(j))
  /\ WF_vars(CreatePoomSettle)

(***************************************************************************)
(* Properties of the manifest cache (SpecManifest).                        *)
(***************************************************************************)
Called(c) == callers[c] # Idle
TasksFor(r) == {t \in Callers : tasks[t] # None /\ tasks[t].run = r}

\* C1: calls for a run that start while a fetch for it is outstanding start
\* no upstream request of their own (one fetchJson call serves them all),
\* and once that fetch has settled every one of them, and the caller that
\* started it, has its outcome: the same manifest or the same failure.
C1_SingleFlight ==
  /\ \A r \in Runs : upstreamFetches[r] = Cardinality(TasksFor(r))
  /\ \A c \in Callers :
       (Called(c) /\ callers[c].seenPending # {}) =>
         /\ tasks[c] = None
         /\ \A t \in callers[c].seenPending :
              tasks[t].status # "pending" =>
                /\ callers[c].pc = "done"
                /\ callers[c].result = tasks[t].result
                /\ callers[t].pc = "done"
                /\ callers[t].result = tasks[t].result

\* three callers of one run, two of them arriving while the first one's
\* fetch was outstanding, all served
C1_Witness ==
  \E t, c1, c2 \in Callers :
    /\ c1 # c2
    /\ Called(c1) /\ callers[c1].seenPending = {t}
    /\ Called(c2) /\ callers[c2].seenPending = {t}
    /\ callers[t].pc = "done" /\ callers[c1].pc = "done" /\ callers[c2].pc = "done"
    /\ ~callers[t].result.ok

\* C2: in every reachable state, every run id has at most one outstanding
\* upstream manifest fetch.
C2_AtMostOneOutstanding ==
  \A r \in Runs : Cardinality(PendingTasks(r)) <= 1

\* a call arrived for a run whose entry had expired while a fetch for it
\* was outstanding
C2_Witness ==
  \E c \in Callers :
    /\ Called(c)
    /\ callers[c].seenPending # {}
    /\ callers[c].seenEntry # None
    /\ PendingTasks(callers[c].run) # {}

C4_InflightRemoved ==
  /\ \A r \in Runs :
       inflightManifest[r] # NoTask => tasks[inflightManifest[r]].status = "pending"
  /\ \A c \in Callers :
       (Called(c) /\ callers[c].prevSettle = "failed") =>
         (callers[c].path = "fetched" /\ tasks[c] # None /\ tasks[c].run = callers[c].run)

\* a call that followed a failed fetch of its run, and has been answered
C4_Witness ==
  \E c \in Callers :
    /\ Called(c) /\ callers[c].prevSettle = "failed"
    /\ callers[c].pc = "done"
    /\ inflightManifest[callers[c].run] = NoTask

(***************************************************************************)
(* Properties of fetchJson (SpecJson).                                     *)
(***************************************************************************)
LogIdx == 1..Len(jlog)
Succeeded(resp) == resp.kind = "http" /\ resp.status >= 200 /\ resp.status <= 299
Is502or503(resp) == resp.kind = "http" /\ resp.status \in {502, 503}
LastEntry == jlog[Len(jlog)]

\* C5: the bases are contacted in their order, starting with the first;
\* the call gives up only after the last base; and a 2xx response ends the
\* call at once with that response's body: no attempt follows it, so no
\* base after the first succeeding one is contacted.
C5_FirstSuccessWins ==
  /\ jlog # <<>> => jlog[1].base = 0
  /\ \A i \in LogIdx : i < Len(jlog) => jlog[i + 1].base \in {jlog[i].base, jlog[i].base + 1}
  /\ jpc = "thrown" => LastEntry.base = numBases - 1
  /\ jpc = "waiting" => upstreamIndex < numBases
  /\ \A i \in LogIdx :
       Succeeded(jlog[i].resp) =>
         /\ i = Len(jlog)
         /\ jpc = "returned"
         /\ jresult = JsonOf(jlog[i].resp.body)
         /\ \A j \in LogIdx : jlog[j].base <= jlog[i].base

\* three bases, the first one failed, the second one answered 2xx
C5_Witness ==
  /\ numBases >= 3
  /\ jpc = "returned"
  /\ LastEntry.base = 1
  /\ jresult = Doc("d2")
  /\ \E i \in LogIdx : jlog[i].base = 0

\* C6 (as claimed): the first 502/503 answer of every base is followed by
\* another attempt on that same base, and a 502/503 answer to that retry
\* moves the call to the next base, or ends it when there is none.
C6_RetriedOncePerBase ==
  \A i \in LogIdx :
    Is502or503(jlog[i].resp) =>
      LET b == jlog[i].base
          firstOnBase == \A j \in LogIdx : j < i => jlog[j].base # b
      IN IF firstOnBase
           THEN IF i < Len(jlog) THEN jlog[i + 1].base = b
                ELSE jpc = "waiting" /\ upstreamIndex = b
           ELSE IF i < Len(jlog) THEN jlog[i + 1].base = b + 1
                ELSE \/ jpc = "waiting" /\ upstreamIndex = b + 1
                     \/ jpc = "thrown" /\ b = numBases - 1

\* C7 (as claimed): when the call has failed, every base was tried, what
\* fetchJson throws is the failure of the last attempt, and the payload a
\* handler returns for it is the ToolError {code, message, retryable} of
\* that failure.
C7_LastFailureAsToolError ==
  jpc = "thrown" =>
    /\ \A b \in 0..(numBases - 1) : \E i \in LogIdx : jlog[i].base = b
    /\ jresult = Thrown(LastEntry.resp)
    /\ LET last == normalizeError(Thrown(LastEntry.resp))
       IN toolError(jresult) =
            [code |-> last.code, message |-> last.message, retryable |-> last.retryable]

\* What the code does satisfy there: what is thrown, and what the payload
\* text names, is the failure of the last base.
C7_LastFailureReported ==
  jpc = "thrown" =>
    /\ \A b \in 0..(numBases - 1) : \E i \in LogIdx : jlog[i].base = b
    /\ jresult = Thrown(LastEntry.resp)
    /\ LET last == normalizeError(Thrown(LastEntry.resp))
       IN toolError(jresult) = [isError |-> TRUE, text |-> <<last.code>> \o last.message]

(***************************************************************************)
(* Properties of the tool handlers (SpecTools).                            *)
(***************************************************************************)
OpenRun == tool # None /\ tool.op = "open_run_player"
Finished == tool # None /\ tool.pc = "done"
NoReference(ref) == ref = NoRef \/ ref.form = "blank"
RunNotFound ==
  MkToolError("RUN_NOT_FOUND", <<"No tutorial runs are currently available">>, FALSE)

StructuredPayload(p) ==
  /\ "isError" \in DOMAIN p
  /\ IF p.isError THEN "text" \in DOMAIN p /\ p.text # <<>>
     ELSE "kind" \in DOMAIN p /\ p.kind \in {"object", "widget"}

\* C8: whenever a tool handler has finished, whatever the upstream answered
\* (2xx, non-2xx, transport failure, timeout, body failing its schema), what
\* it hands back is a structured payload: the error payload of the failure
\* it caught, or else a success payload; nothing is thrown past the handler.
C8_StructuredResult ==
  Finished =>
    /\ StructuredPayload(tool.result)
    /\ tool.caught # None => tool.result.isError /\ tool.result = toolError(tool.caught)
    /\ tool.caught = None => ~tool.result.isError

\* get_poom_status got a body that fails the schema and returned an error payload
C8_Witness ==
  /\ Finished
  /\ tool.op = "get_poom_status"
  /\ tool.caught = ZodError
  /\ tool.result.isError

\* C9: open_run_player takes the explicit run_id if given, else the id
\* parsed from poom_ref, else the default run id of the environment, else
\* the first run GET /runs answers; GET /runs is asked only when the three
\* others are absent, and a source is used only when those before it are absent.
C9_RunIdPriority ==
  OpenRun =>
    LET explicit == tool.run_id
        parsed == parsePoomRef(tool.poom_ref)
        asked == \E i \in DOMAIN tool.calls : tool.calls[i] = "runs"
    IN /\ explicit # NoRun => tool.resolved = explicit /\ ~asked
       /\ (explicit = NoRun /\ parsed.threw) => tool.resolved = NoRun /\ ~asked
       /\ (explicit = NoRun /\ ~parsed.threw /\ parsed.value # NoRun) =>
            tool.resolved = parsed.value /\ ~asked
       /\ (explicit = NoRun /\ ~parsed.threw /\ parsed.value = NoRun /\ defaultRunId # NoRun) =>
            tool.resolved = defaultRunId /\ ~asked
       /\ (explicit = NoRun /\ ~parsed.threw /\ parsed.value = NoRun /\ defaultRunId = NoRun) =>
            /\ asked
            /\ tool.calls[1] = "runs"
            /\ tool.resolved # NoRun => backendRuns # <<>> /\ tool.resolved = backendRuns[1]

\* nothing was given and nothing configured: the first run of GET /runs is played
C9_Witness ==
  /\ OpenRun
  /\ Finished
  /\ tool.run_id = NoRun
  /\ tool.poom_ref = NoRef
  /\ defaultRunId = NoRun
  /\ tool.resolved = "r2"
  /\ ~tool.result.isError

\* C10 (as claimed): with no run_id and no reference, and an empty run list
\* upstream, open_run_player never fetches a manifest, and unless GET /runs
\* itself failed it ends with the error RUN_NOT_FOUND, not retryable.
C10_EmptyRunListNotFound ==
  (OpenRun /\ tool.run_id = NoRun /\ NoReference(tool.poom_ref) /\ backendRuns = <<>>) =>
    /\ \A i \in DOMAIN tool.calls : tool.calls[i] # "manifest"
    /\ tool.resolved = NoRun
    /\ (Finished /\ tool.caught # tool.got["runs"]) =>
         tool.caught = RunNotFound /\ tool.result = toolError(RunNotFound)

\* C10 (amended): with no run_id, no reference and no default run id
\* configured, and an empty run list upstream, open_run_player asks GET /runs
\* and nothing else, never fetches a manifest, and once GET /runs has
\* answered with the empty list it ends with the error RUN_NOT_FOUND, not
\* retryable, returned as the error payload naming that code.
C10_NoDefaultEmptyRunListNotFound ==
  (OpenRun /\ tool.run_id = NoRun /\ NoReference(tool.poom_ref)
     /\ defaultRunId = NoRun /\ backendRuns = <<>>) =>
    /\ tool.calls = <<"runs">>
    /\ tool.resolved = NoRun
    /\ \A r \in Runs : upstreamFetches[r] = 0
    /\ tool.got["runs"] = RunsDoc(<<>>) =>
         /\ Finished
         /\ tool.caught = RunNotFound
         /\ tool.result = [isError |-> TRUE,
                           text |-> <<"RUN_NOT_FOUND", "No tutorial runs are currently available">>]

\* GET /runs answered with the empty list and the handler ended with RUN_NOT_FOUND
C10_Witness ==
  /\ OpenRun
  /\ Finished
  /\ tool.run_id = NoRun
  /\ tool.poom_ref = NoRef
  /\ defaultRunId = NoRun
  /\ tool.got["runs"] = RunsDoc(<<>>)
  /\ tool.caught = RunNotFound

ManifestInvalid(r) ==
  MkToolError("MANIFEST_INVALID", <<"Run", r, "does not have a playable master video">>, FALSE)
GotManifest == OpenRun /\ Finished /\ callers[1].pc = "done" /\ callers[1].result.ok
IsPlayerPayload(p) == "kind" \in DOMAIN p /\ p.kind = "widget"

\* C11: when open_run_player has finished on a manifest whose master is
\* not available or has no video URL, what it returns is the error payload
\* of MANIFEST_INVALID (thrown with retryable = false) and not a player
\* payload; a player payload is returned only on a manifest that is
\* available with a non-empty video URL.
C11_ManifestInvalid ==
  GotManifest =>
    LET m == callers[1].result.value
        playable == m.available /\ m.video_stream_url # ""
    IN /\ ~playable =>
            /\ tool.caught = ManifestInvalid(tool.resolved)
            /\ tool.result = toolError(ManifestInvalid(tool.resolved))
            /\ tool.result.isError
            /\ ~IsPlayerPayload(tool.result)
       /\ IsPlayerPayload(tool.result) =>
            playable /\ tool.result.props.master_video_url = m.video_stream_url

\* the manifest says available = false, with a video URL, and the handler
\* has ended with MANIFEST_INVALID
C11_Witness ==
  /\ GotManifest
  /\ ~callers[1].result.value.available
  /\ callers[1].result.value.video_stream_url # ""
  /\ tool.caught = ManifestInvalid(tool.resolved)

(***************************************************************************)
(* Properties of the widget (SpecWidget).                                  *)
(***************************************************************************)
\* the job reported by the last settled poll of job j, or None
ReportedJob(j) ==
  IF lastReply[j] # None /\ lastReply[j].kind = "resolved"
    THEN JobOf(StructuredContent(lastReply[j]))
    ELSE None
ReportedStatus(j) == IF ReportedJob(j) = None THEN "" ELSE ReportedJob(j).status
CompletedWithRun(j) == ReportedStatus(j) = "completed" /\ ReportedJob(j).run_id # NoRun
\* the poll of job j gets its reply in this step
PollReplied(j) == pollPc[j] = "awaiting" /\ pollPc'[j] # "awaiting"
\* a get_poom_status call for job j is issued in this step
PollIssued(j) == pollPc[j] # "awaiting" /\ pollPc'[j] = "awaiting"
TimerPending(j) == \E t \in timers : t.job = j

C12_Step(j) ==
  /\ (PollReplied(j) /\ ReportedStatus(j)' \in {"queued", "running"}) =>
       /\ hubMessage' = <<ReportedStatus(j)', ReportedJob(j)'.message>>
       /\ TimerPending(j)'
       /\ pollTimerRef' # NoTimer
       /\ \E t \in timers' : t.id = pollTimerRef' /\ t.job = j
       /\ openRunCalls'[j] = openRunCalls[j]
  /\ (PollReplied(j) /\ CompletedWithRun(j)') =>
       /\ ~TimerPending(j)'
       /\ pollTimerRef' = NoTimer
       /\ openRunCalls'[j] = Append(openRunCalls[j], ReportedJob(j)'.run_id)
  /\ CompletedWithRun(j) =>
       /\ ~PollIssued(j)
       /\ ~TimerPending(j)'
       /\ lastReply'[j] = lastReply[j]
       /\ openRunCalls'[j] = openRunCalls[j]
       /\ openRunCalls[j] = <<ReportedJob(j).run_id>>

\* C12: on every reply with status queued or running the widget shows the
\* status and schedules the next tick for the job; on the first reply with
\* status completed and a run id it clears the timer, schedules none, and
\* calls openRun with that run id; from then on no get_poom_status call is
\* made for the job and openRun is not called for it again.
C12_PollUntilCompleted == [][\A j \in JobIds : C12_Step(j)]_vars

\* one job: a first poll that kept polling, then completed with a run id
C12_Witness ==
  /\ created = 1
  /\ timerSeq >= 2
  /\ CompletedWithRun(1)
  /\ openRunCalls[1] = <<"r1">>
  /\ pollPc[1] = "ended"

C13_Step(j) ==
  /\ (PollReplied(j) /\ ReportedStatus(j)' = "failed") =>
       LET job == ReportedJob(j)'
           detail == IF job.error # None /\ job.error.message # "" THEN job.error.message
                     ELSE IF job.message # "" THEN job.message
                     ELSE "Unknown failure"
       IN /\ hubMessage' = <<"POOM failed:", detail>>
          /\ ~TimerPending(j)'
          /\ pollTimerRef' = NoTimer
          /\ pollPc'[j] = "ended"
          /\ openRunCalls'[j] = openRunCalls[j]
  /\ ReportedStatus(j) = "failed" =>
       /\ ~PollIssued(j)
       /\ ~TimerPending(j)'
       /\ lastReply'[j] = lastReply[j]
       /\ openRunCalls'[j] = <<>>

\* C13: on a reply with status failed the widget clears the timer and
\* schedules none, shows the error message of the backend as it was given
\* (the job message when there is no error message, a generic text when
\* there is neither), does not call openRun, and never polls the job again.
C13_FailedStopsPolling == [][\A j \in JobIds : C13_Step(j)]_vars

\* a poll was answered failed with the error message "decode error"
C13_Witness ==
  /\ ReportedStatus(1) = "failed"
  /\ ReportedJob(1).error # None
  /\ hubMessage = <<"POOM failed:", "decode error">>
  /\ pollPc[1] = "ended"
  /\ timers = {}

\* the poll failed: callTool rejected, or get_poom_status returned its
\* error payload (toolError, index.ts line 461)
PollFailed(j) ==
  /\ lastReply[j] # None
  /\ \/ lastReply[j].kind = "rejected"
     \/ lastReply[j].kind = "resolved" /\ lastReply[j].result.isError

C14_Step(j) ==
  (PollReplied(j) /\ PollFailed(j)') =>
    /\ ~TimerPending(j)'
    /\ pollPc'[j] = "ended"
    /\ hubMessage' = <<"Polling failed">>

\* C14 (as claimed): when a poll fails, the widget schedules no further
\* tick for the job, ends the polling of the job, and shows the failure.
C14_PollFailureStops == [][\A j \in JobIds : C14_Step(j)]_vars

\* the old jobs: polled for, and since superseded by a newer job or left
\* behind by the teardown of the widget
Superseded(j) == pollPc[j] # "none" /\ created > j
TornDown == ~mounted

C15_Step(j) ==
  (pollPc[j] # "none" /\ (TornDown \/ Superseded(j))) =>
    /\ ~PollIssued(j)
    /\ ~TimerPending(j)'

\* C15 (as claimed): once the widget is torn down, or a newer job has
\* superseded job j, no get_poom_status call is issued for j and no timer
\* for j is scheduled.
C15_NoStalePolling == [][\A j \in JobIds : C15_Step(j)]_vars

(***************************************************************************)
(* Further properties of the tool handlers (SpecTools).                    *)
(***************************************************************************)
\* the run cards of the backend's run list
CardsOfBackend ==
  [i \in DOMAIN backendRuns |->
     [run_id |-> backendRuns[i], segment_count |-> 1,
      poom_url |-> [form |-> "poom", text |-> [encoded |-> backendRuns[i]]]]]

\* C16: every list_runs call that succeeds returns the run cards of the
\* backend's run list, one per run, in its order, with the run's fields and
\* the poom_url of its id: a value fixed by the backend state alone, hence
\* the same for every call, whatever was called before and whatever the
\* manifest cache holds.
C16_ListRunsIdempotent ==
  (Finished /\ tool.op = "list_runs" /\ ~tool.result.isError) =>
    /\ tool.result.kind = "widget"
    /\ tool.result.props.runs = CardsOfBackend
    /\ tool.result.props.active_jobs = <<>>

\* list_runs succeeded after an earlier open_run_player had filled the cache
C16_Witness ==
  /\ Finished
  /\ tool.op = "list_runs"
  /\ ~tool.result.isError
  /\ backendRuns # <<>>
  /\ manifestCache["r2"] # None
  /\ tool.result.props.runs = CardsOfBackend

(***************************************************************************)
(* Further properties of fetchJson (SpecJson).                             *)
(***************************************************************************)
\* C17 (as claimed): a call with method POST, which is what create_poom
\* makes for POST /pipeline/jobs (lines 423-429), sends at most one request
\* to the backend, whatever the answers.
C17_AtMostOnePost ==
  \A i, k \in LogIdx : (jlog[i].method = "POST" /\ jlog[k].method = "POST") => i = k

\* C18 (as claimed): on every base, the first attempt runs with attempt = 0,
\* so that a 502/503 answer to it is retried on that base.
C18_AttemptResetOnFailover ==
  \A i \in LogIdx :
    (\A k \in LogIdx : k < i => jlog[k].base # jlog[i].base) =>
      /\ jlog[i].attempt = 0
      /\ (Is502or503(jlog[i].resp) /\ i < Len(jlog)) => jlog[i + 1].base = jlog[i].base
      /\ (Is502or503(jlog[i].resp) /\ i = Len(jlog)) =>
           jpc = "waiting" /\ upstreamIndex = jlog[i].base

\* C20: when the call has thrown on a non-2xx response, the error is the
\* code, message and retryable flag of the error object of the body if the
\* body has one with a code and a message; otherwise RUN_NOT_FOUND, not
\* retryable, for status 404, and UPSTREAM_TIMEOUT, retryable exactly when
\* status >= 500, for any other status.
C20_NonOkClassification ==
  (jpc = "thrown" /\ LastEntry.resp.kind = "http") =>
    LET resp == LastEntry.resp
        body == resp.body
        embedded == body.shape = "error" /\ body.code # "" /\ body.message # <<>>
    IN /\ ~(resp.status >= 200 /\ resp.status <= 299)
       /\ jresult.type = "ToolError"
       /\ embedded =>
            /\ jresult.code = body.code
            /\ jresult.message = body.message
            /\ jresult.retryable = body.retryable
       /\ (~embedded /\ resp.status = 404) =>
            jresult.code = "RUN_NOT_FOUND" /\ jresult.retryable = FALSE
       /\ (~embedded /\ resp.status # 404) =>
            /\ jresult.code = "UPSTREAM_TIMEOUT"
            /\ jresult.retryable = (resp.status >= 500)

\* the call ended on a 404 whose body declares its own error
C20_Witness ==
  /\ jpc = "thrown"
  /\ LastEntry.resp = Http(404, ErrBody("E_UP", <<"gone">>, FALSE))
  /\ jresult.code = "E_UP"
  /\ jresult.retryable = FALSE

(***************************************************************************)
(* Further properties of the manifest cache (SpecManifest).                *)
(***************************************************************************)
\* C19 (as claimed): whenever an entry is written to the manifest cache, its
\* expiry is the time of the write plus the TTL.
C19_ExpiryFromStoreTime ==
  [][\A r \in Runs :
       manifestCache'[r] # manifestCache[r] =>
         manifestCache'[r].expiresAt = clock' + MANIFEST_CACHE_TTL_MS]_vars

(***************************************************************************)
(* Properties of fetchJson, continued (SpecJson).                          *)
(***************************************************************************)
\* C21: an attempt aborted by its timeout is followed by an attempt on the
\* next base if there is one, as after a transport failure; when it was on
\* the last base the call throws the abort, which normalizeError reports as
\* UPSTREAM_TIMEOUT with retryable = true; and no timer outlives its
\* attempt: the only timer set is that of the attempt in progress.
C21_TimeoutAborts ==
  /\ \A i \in LogIdx :
       jlog[i].resp = TimedOut =>
         IF i < Len(jlog) THEN jlog[i + 1].base = jlog[i].base + 1
         ELSE \/ jpc = "waiting" /\ upstreamIndex = jlog[i].base + 1
              \/ /\ jpc = "thrown"
                 /\ jlog[i].base = numBases - 1
                 /\ jresult = Aborted
                 /\ normalizeError(jresult).code = "UPSTREAM_TIMEOUT"
                 /\ normalizeError(jresult).retryable = TRUE
  /\ jtimers = IF jpc = "waiting" THEN {Len(jlog) + 1} ELSE {}

\* two bases, both attempts timed out, the call has thrown and no timer is set
C21_Witness ==
  /\ numBases = 2
  /\ jpc = "thrown"
  /\ Len(jlog) = 2
  /\ jlog[1].resp = TimedOut
  /\ jlog[2].resp = TimedOut
  /\ jtimers = {}

(***************************************************************************)
(* Properties of the widget, continued (SpecWidget).                       *)
(***************************************************************************)
CompletedNoRun(j) == ReportedStatus(j) = "completed" /\ ReportedJob(j).run_id = NoRun

C22_Step(j) ==
  /\ (PollReplied(j) /\ CompletedNoRun(j)') =>
       /\ hubMessage' = <<"POOM completed but run_id is missing. Refresh and open manually.">>
       /\ ~TimerPending(j)'
       /\ pollTimerRef' = NoTimer
       /\ timerSeq' = timerSeq
       /\ pollPc'[j] = "ended"
       /\ openRunCalls' = openRunCalls
       /\ isWorking' = isWorking
  /\ CompletedNoRun(j) =>
       /\ ~PollIssued(j)
       /\ ~TimerPending(j)'
       /\ lastReply'[j] = lastReply[j]
       /\ openRunCalls'[j] = <<>>

\* C22: on a reply with status completed and no run id the widget clears
\* the timer and schedules none, does not call openRun, and shows the
\* message that tells the user to refresh and open manually; the job is
\* never polled again.
C22_CompletedWithoutRun == [][\A j \in JobIds : C22_Step(j)]_vars

\* a second poll of job 1 was answered completed without a run id
C22_Witness ==
  /\ timerSeq >= 2
  /\ CompletedNoRun(1)
  /\ pollPc[1] = "ended"
  /\ openRunCalls[1] = <<>>
  /\ hubMessage = <<"POOM completed but run_id is missing. Refresh and open manually.">>

\* the createPoom call in flight gets its reply in this step
CreateReplied == creating' < creating
\* the reply to create_poom carries a job with a job id
HasJobId(reply) ==
  /\ reply # None
  /\ reply.kind = "resolved"
  /\ JobOf(StructuredContent(reply)) # None
  /\ JobOf(StructuredContent(reply)).job_id # NoJobId
TimersOf(j, ts) == {t \in ts : t.job = j}

C23_Step ==
  /\ (CreateReplied /\ HasJobId(lastCreate')) =>
       LET id == JobOf(StructuredContent(lastCreate')).job_id
       IN /\ Cardinality(TimersOf(id, timers')) = 1
          /\ timers' \ timers = TimersOf(id, timers')
          /\ \A t \in TimersOf(id, timers') : pollTimerRef' = t.id
          /\ pollPc[id] = "none" /\ pollPc'[id] = "timer"
  /\ (CreateReplied /\ ~HasJobId(lastCreate')) =>
       /\ timers' = timers
       /\ pollTimerRef' = pollTimerRef
       /\ pollPc' = pollPc
       /\ hubMessage' = IF lastCreate'.kind = "rejected" THEN <<"Create failed">>
                        ELSE <<"POOM creation response was missing a job id.">>
  /\ \A j \in JobIds :
       (pollPc[j] = "none" /\ pollPc'[j] # "none") =>
          /\ CreateReplied
          /\ HasJobId(lastCreate')
          /\ JobOf(StructuredContent(lastCreate')).job_id = j
  /\ \A t \in timers' \ timers :
       \/ CreateReplied /\ HasJobId(lastCreate')
       \/ PollReplied(t.job)

\* C23: the reply to create_poom that carries a job id schedules exactly one
\* poll, for that job id; a create call that fails, or whose reply has no
\* job id, schedules none and shows a message; and a first poll of a job
\* is scheduled by nothing else (later ticks only by the poll before them).
C23_PollingStartedByCreate == [][C23_Step]_vars

\* a first create started the polling of job 1, a second one was rejected
C23_Witness ==
  /\ created = 1
  /\ pollPc[1] # "none"
  /\ lastCreate = Rejected
  /\ hubMessage = <<"Create failed">>

C24_Step(j) ==
  (PollReplied(j) /\ ReportedJob(j)' # None) =>
     LET others == SelectSeq(hubJobs, LAMBDA row : row.job_id # ReportedJob(j)'.job_id)
     IN /\ Len(hubJobs') >= 1
        /\ hubJobs'[1] = ReportedJob(j)'
        /\ Cardinality({n \in 1..Len(hubJobs') :
                          hubJobs'[n].job_id = ReportedJob(j)'.job_id}) = 1
        /\ Len(hubJobs') - 1 <= Len(others)
        /\ Tail(hubJobs') = SubSeq(others, 1, Len(hubJobs') - 1)
        /\ Len(hubJobs') <= HubJobsMax

\* C24: after a poll that returned a job the job list has that job at its
\* head and no other entry with its job id, the entries after the head are
\* the other entries of the previous list in their previous order (those
\* that fit), and the list has at most 8 entries.
C24_JobListMerge == [][\A j \in JobIds : C24_Step(j)]_vars

\* the list is full; job 1, listed before, was polled and moved to the head
\* in front of job 2
C24_Witness ==
  /\ Len(hubJobs) = HubJobsMax
  /\ ReportedStatus(1) = "queued"
  /\ hubJobs[1] = ReportedJob(1)
  /\ hubJobs[2].job_id = 2

(***************************************************************************)
(* Properties of the tool handlers, continued (SpecTools).                 *)
(***************************************************************************)
GetStatus == tool # None /\ tool.op = "get_poom_status"

\* C25: get_poom_status has issued both fetches when it first suspends, and
\* while it waits the fetches not yet settled are exactly those without a
\* result (neither waits for the other); it returns the success payload
\* built from both results only when both succeeded, and the error payload
\* of the first failure as soon as either fails, whatever the other did.
C25_StatusFetchesConcurrent ==
  GetStatus =>
    /\ tool.calls = <<"job", "runs">>
    /\ tool.pc = "awaiting" =>
         /\ tool.caught = None
         /\ tool.pending # {}
         /\ tool.pending = {e \in {"job", "runs"} : tool.got[e] = None}
    /\ tool.pc = "done" =>
         IF tool.caught = None
           THEN /\ tool.got["job"] # None
                /\ tool.got["runs"] # None
                /\ ~tool.result.isError
                /\ tool.result = object([job |-> tool.got["job"].job,
                                         runs |-> RunCards(tool.got["runs"].runs)])
           ELSE /\ tool.result.isError
                /\ tool.result = toolError(tool.caught)

\* the job fetch succeeded, the run-list fetch failed: an error payload
C25_Witness ==
  /\ GetStatus
  /\ tool.pc = "done"
  /\ tool.got["job"] # None
  /\ tool.got["runs"] = None
  /\ tool.pending = {}
  /\ tool.result.isError

(***************************************************************************)
(* Properties of fetchJson, continued (SpecJson).                          *)
(***************************************************************************)
MalformedOk(resp) == Succeeded(resp) /\ resp.body = Malformed

\* C26: a 2xx response whose body is not JSON ends the call at once with
\* the empty object as its result: nothing is thrown, and no attempt
\* follows it, neither on the same base nor on another one.
C26_MalformedOkIsEmpty ==
  \A i \in LogIdx :
    MalformedOk(jlog[i].resp) =>
      /\ i = Len(jlog)
      /\ jpc = "returned"
      /\ jresult = EmptyObj

\* the primary of several bases answered 200 with a body that is not JSON
C26_Witness ==
  /\ numBases >= 2
  /\ jpc = "returned"
  /\ Len(jlog) = 1
  /\ jlog[1].base = 0
  /\ jlog[1].resp = Http(200, Malformed)
  /\ jresult = EmptyObj

AttemptsOn(b) == {i \in LogIdx : jlog[i].base = b}
InBaseOrder ==
  /\ \A b \in 0..(numBases - 1) : Cardinality(AttemptsOn(b)) <= 2
  /\ Len(jlog) <= 2 * numBases
  /\ \A i \in LogIdx : \A k \in LogIdx : i < k => jlog[i].base <= jlog[k].base
  /\ \A i \in LogIdx : jlog[i].base \in 0..(numBases - 1)

\* C28: a call makes at most two attempts on each base and at most twice
\* the number of bases in all, the base of an attempt is never before the
\* base of an earlier attempt of the call, and every call that was started
\* returns or throws.
C28_TerminatesInBaseOrder ==
  /\ []InBaseOrder
  /\ (jpc = "waiting") ~> (jpc \in {"returned", "thrown"})

\* three bases: two attempts on the first one, one on each of the others,
\* and the call has thrown
C28_Witness ==
  /\ numBases = 3
  /\ jpc = "thrown"
  /\ Len(jlog) = 4
  /\ Cardinality(AttemptsOn(0)) = 2
  /\ LastEntry.base = 2

\* the attempt was answered 502 or 503 and is retried on its own base
RetriedOnBase(i) == Is502or503(jlog[i].resp) /\ jlog[i].attempt < 1
\* the attempt failed with an error the frame throws (line 248, 262 or 270)
FailedAttempt(i) == ~Succeeded(jlog[i].resp) /\ ~RetriedOnBase(i)

\* C29: after every failed attempt on a base that is not the last one,
\* whatever the failure (no response, timeout, or a non-2xx status with or
\* without an error of the backend in its body), the next attempt is on the
\* next base; a call throws only the error of an attempt on the last base.
C29_EveryFailureFailsOver ==
  /\ \A i \in LogIdx :
       (FailedAttempt(i) /\ jlog[i].base < numBases - 1) =>
          IF i < Len(jlog) THEN jlog[i + 1].base = jlog[i].base + 1
          ELSE jpc = "waiting" /\ upstreamIndex = jlog[i].base + 1
  /\ jpc = "thrown" =>
       /\ LastEntry.base = numBases - 1
       /\ jresult = Thrown(LastEntry.resp)

\* the primary answered 404 with a non-retryable error of the backend, and
\* the call went on to the second base
C29_Witness ==
  /\ numBases >= 2
  /\ Len(jlog) = 2
  /\ jlog[1].resp = Http(404, ErrBody("E_UP", <<"gone">>, FALSE))
  /\ jlog[1].base = 0
  /\ jlog[2].base = 1

C30_Step ==
  /\ jcalls' # jcalls =>
       /\ jpc' = "waiting"
       /\ attempt' = 0
       /\ upstreamIndex' = 0
       /\ jlog' = <<>>
  /\ numBases' = numBases

\* C30: every call starts with attempt 0 on the primary base, and its first
\* attempt is made there, whatever base the call before it ended on; the
\* number of bases never changes.
C30_NoFailoverMemory ==
  /\ [](jlog # <<>> => (jlog[1].base = 0 /\ jlog[1].attempt = 0))
  /\ [][C30_Step]_vars

\* the call before ended on the second base; this one was answered by the
\* primary
C30_Witness ==
  /\ jcalls = 2
  /\ jlastBase = 1
  /\ jlog # <<>>
  /\ jlog[1].base = 0
  /\ jpc = "returned"

(***************************************************************************)
(* Termination of the polling loop (SpecWidgetFair).                       *)
(***************************************************************************)
\* the last poll of job j was answered completed or failed, or it failed
PollEnded(j) == ReportedStatus(j) \in {"completed", "failed"} \/ PollFailed(j)
\* no tick of job j is pending and no poll of job j is in flight
LoopStopped(j) == ~TimerPending(j) /\ pollPc[j] # "awaiting"

\* C27 (as claimed): if job j is never superseded and the widget is never
\* torn down, then once a poll of j is answered completed or failed, or
\* fails, a state is reached with no pending tick and no poll in flight
\* for j.
C27_PollingEventuallyStops ==
  \A j \in JobIds :
    ([]mounted /\ []~Superseded(j)) => (PollEnded(j) ~> LoopStopped(j))

\* the same for the polls that are answered completed or failed, or that
\* are rejected: this much holds
C27_StopsAfterStatusOrRejection ==
  \A j \in JobIds :
    ([]mounted /\ []~Superseded(j)) =>
      ((ReportedStatus(j) \in {"completed", "failed"}
          \/ (lastReply[j] # None /\ lastReply[j].kind = "rejected")) ~> LoopStopped(j))

(***************************************************************************)
(* Properties of the manifest cache, continued (SpecManifest).             *)
(***************************************************************************)
\* the task of caller t settles with a failure in this step
TaskFails(t) ==
  /\ tasks[t] # None /\ tasks[t].status = "pending"
  /\ tasks'[t] # None /\ tasks'[t].status = "failed"
Expired(r) == manifestCache[r] # None /\ manifestCache[r].expiresAt <= clock

C31_Step ==
  /\ (\E t \in Callers : TaskFails(t)) => manifestCache' = manifestCache
  /\ \A r \in Runs :
       manifestCache'[r] # manifestCache[r] =>
         \E t \in Callers :
           /\ tasks[t] # None /\ tasks[t].run = r /\ tasks[t].status = "pending"
           /\ tasks'[t].status = "ok"
           /\ manifestCache'[r].payload = tasks'[t].result.value

\* C31: a manifest fetch that fails, by an upstream failure or by a manifest
\* that does not pass its schema, leaves every cache entry as it was: none
\* is added, and an expired entry of the run stays, unrefreshed; the cache
\* changes only by the entry a successful fetch stores.
C31_FailureLeavesCache == [][C31_Step]_vars

\* the entry of a run has expired, a refetch of the run has failed, and the
\* expired entry is still there
C31_Witness ==
  \E c \in Callers :
    /\ Called(c) /\ callers[c].seenEntry # None /\ ~callers[c].seenLive
    /\ tasks[c] # None /\ tasks[c].status = "failed"
    /\ Expired(callers[c].run)
    /\ manifestCache[callers[c].run] = callers[c].seenEntry

(***************************************************************************)
(* Further properties of the widget (SpecWidget).                          *)
(***************************************************************************)
PollsInFlight == {j \in JobIds : pollPc[j] = "awaiting"}

\* C32 (as claimed): in every reachable state the pending poll timers and
\* the status polls in flight number at most one in total, and
\* pollTimerRef, when set, is the handle of every timer that is pending.
C32_SinglePollingLoop ==
  /\ Cardinality(timers) + Cardinality(PollsInFlight) <= 1
  /\ pollTimerRef # NoTimer => \A t \in timers : t.id = pollTimerRef

\* the reply to the last poll of job j arrived and carries no job record
NoJobReply(j) ==
  lastReply[j] # None /\ lastReply[j].kind = "resolved" /\ ReportedJob(j) = None

C33_Step(j) ==
  (PollReplied(j) /\ NoJobReply(j)') =>
    /\ hubJobs' = hubJobs
    /\ pollPc'[j] = "timer"
    /\ openRunCalls' = openRunCalls
    /\ \E t \in timers' :
         /\ t.job = j
         /\ t.delay = PollIntervalMs
         /\ t.id = pollTimerRef'
         /\ t \notin timers
         /\ timers' = timers \cup {t}

\* C33: a poll whose reply carries no job record leaves the job list as it
\* was, clears no timer, and sets one new timer for the job, due after the
\* fixed poll interval and held by pollTimerRef: the loop goes on.
C33_NoJobReplyContinues == [][\A j \in JobIds : C33_Step(j)]_vars

\* the poll of job 1 was answered by an error payload and the next tick of
\* job 1 is pending
C33_Witness ==
  /\ NoJobReply(1)
  /\ lastReply[1].result.isError
  /\ pollPc[1] = "timer"
  /\ \E t \in timers : t.job = 1 /\ t.delay = PollIntervalMs /\ t.id = pollTimerRef

(***************************************************************************)
(* The poom reference round trip (SpecTools).                              *)
(***************************************************************************)
\* the run ids whose poom_url, as toPoomUrl builds it, is the reference given
RunsReferredTo == {id \in Runs : tool.poom_ref = toPoomUrl(id)}

====
